---- MODULE Spec2Model ----
(***************************************************************************)
(* Course Token Marketplace API (src/main.py, src/schemas.py).             *)
(*                                                                         *)
(* The state is the MongoDB collections the handlers use (course,          *)
(* coursetoken, purchase, balance, order) and, for every worker thread of  *)
(* the server, the request it is executing: its inputs, its local          *)
(* variables and its position in the handler.  Every database call of a    *)
(* handler is one step, an operator from (database, worker) to (database,  *)
(* worker); a single-document update ($inc) is atomic, a find_one followed *)
(* by an update is not.  Spec serves the requests one at a time, each      *)
(* handler run to completion in one action; ConcSpec interleaves the       *)
(* steps of the handlers that two worker threads execute.                  *)
(*                                                                         *)
(* A document is a record; its _id is its position in the collection       *)
(* (documents are never deleted).  find_one returns the first matching     *)
(* document, or a document with _id = 0 when there is none (None).         *)
(*                                                                         *)
(* Money: prices are whole USD; treasury_revenue_usd is kept in units of   *)
(* 0.005 USD (1 USD = RevenueUnitsPerUsd units), the granularity of the    *)
(* secondary-market fee amount * price * 0.005.                            *)
(* A balance document without a "reserved" field (the Balance schema has   *)
(* none) is modelled with reserved = 0: $inc creates a missing field from  *)
(* 0 and no handler reads the field.                                       *)
(***************************************************************************)
EXTENDS Integers, Sequences, FiniteSets, TLC

VARIABLES db, proc, served

vars == <<db, proc, served>>

---------------------------------------------------------------------------
(* Bound of the model: the requests that change the database which Spec    *)
(* follows after the script that built the initial database.               *)

MaxRequests == 3

(* Program constants *)

RewardDivisor == 100
RevenueUnitsPerUsd == 200
InvalidId == 0

(* Inputs *)

Workers == {1, 2}
SerialWorkers == {1}
Users == {"u1", "u2"}
TokenSupplies == {1, 2}
CoursePrices == {3}
Sides == {"buy", "sell"}
OrderVariants ==
    {[price_usd |-> 1, amount |-> 1, status |-> "open"],
     [price_usd |-> 2, amount |-> 2, status |-> "filled"]}
TradeAmounts == {-1, 0, 1, 3}
CourseIdInputs == {InvalidId, 1, 2}
OrderIdInputs == {InvalidId, 1, 2, 3}

---------------------------------------------------------------------------
(* Helpers *)

Min(a, b) == IF a < b THEN a ELSE b
Max(a, b) == IF a > b THEN a ELSE b

Indices(s) == 1..Len(s)

(* The first index of s whose element satisfies Test, 0 if none. *)
FirstIndex(s, Test(_)) ==
    IF \E i \in Indices(s) : Test(s[i])
    THEN CHOOSE i \in Indices(s) :
            Test(s[i]) /\ \A j \in 1..(i - 1) : ~Test(s[j])
    ELSE 0

---------------------------------------------------------------------------
(* Documents *)

NoCourse == [_id |-> 0, price_usd |-> 0, token_supply |-> 0]
NoToken == [_id |-> 0, course_id |-> 0, total_supply |-> 0,
            circulating_supply |-> 0, treasury_token_balance |-> 0,
            treasury_revenue_usd |-> 0]
NoBalance == [_id |-> 0, user_id |-> "", course_id |-> 0, amount |-> 0,
              reserved |-> 0]
NoOrder == [_id |-> 0, course_id |-> 0, user_id |-> "", side |-> "",
            price_usd |-> 0, amount |-> 0, status |-> ""]

EmptyDb == [course |-> <<>>, coursetoken |-> <<>>, purchase |-> <<>>,
            balance |-> <<>>, order |-> <<>>]

WithId(doc, i) == [f \in {"_id"} \cup DOMAIN doc |->
                      IF f = "_id" THEN i ELSE doc[f]]

(* db.course.find_one({"_id": ObjectId(id)}) *)
FindCourse(d, id) ==
    IF id \in Indices(d.course) THEN WithId(d.course[id], id) ELSE NoCourse

(* db.coursetoken.find_one({"course_id": course_id}) *)
FindToken(d, course_id) ==
    LET IsFor(t) == t.course_id = course_id
        i == FirstIndex(d.coursetoken, IsFor)
    IN IF i = 0 THEN NoToken ELSE WithId(d.coursetoken[i], i)

(* db.balance.find_one({"user_id": user_id, "course_id": course_id}) *)
FindBalance(d, user_id, course_id) ==
    LET IsFor(b) == b.user_id = user_id /\ b.course_id = course_id
        i == FirstIndex(d.balance, IsFor)
    IN IF i = 0 THEN NoBalance ELSE WithId(d.balance[i], i)

(* db.order.find_one({"_id": ObjectId(id)}) *)
FindOrder(d, id) ==
    IF id \in Indices(d.order) THEN WithId(d.order[id], id) ELSE NoOrder

(* db.coursetoken.update_one({"course_id": course_id}, {"$inc": {...}}) *)
IncToken(tokens, course_id, circulating, treasury, revenue) ==
    LET IsFor(t) == t.course_id = course_id
        i == FirstIndex(tokens, IsFor)
    IN IF i = 0 THEN tokens
       ELSE [tokens EXCEPT
               ![i].circulating_supply = @ + circulating,
               ![i].treasury_token_balance = @ + treasury,
               ![i].treasury_revenue_usd = @ + revenue]

(* db.balance.update_one({"_id": id}, {"$inc": {"amount": a, "reserved": r}}) *)
IncBalance(balances, id, a, r) ==
    [balances EXCEPT ![id].amount = @ + a, ![id].reserved = @ + r]

(* db.order.update_one({"_id": id}, {"$inc": {"amount": -amount}}) *)
DecOrder(orders, id, amount) == [orders EXCEPT ![id].amount = @ - amount]

---------------------------------------------------------------------------
(* Workers and requests *)

NoReq == [op |-> "", user_id |-> "", course_id |-> 0, side |-> "",
          price_usd |-> 0, amount |-> 0, status |-> "", token_supply |-> 0,
          buy_order_id |-> 0, sell_order_id |-> 0]
NoLoc == [course |-> NoCourse, token |-> NoToken, bal |-> NoBalance,
          bal_seller |-> NoBalance, bal_buyer |-> NoBalance,
          buy |-> NoOrder, sell |-> NoOrder, allocate |-> 0, amount |-> 0,
          price |-> 0, id |-> 0]
NoResp == [code |-> 0, detail |-> "", id |-> 0, tokens_awarded |-> 0,
           filled_amount |-> 0, price_usd |-> 0]

(* pre: the database as the request found it, kept for the requests that   *)
(* are served one at a time.                                               *)
IdleProc == [pc |-> "idle", req |-> NoReq, loc |-> NoLoc, resp |-> NoResp,
             pre |-> EmptyDb]

St(d, w) == [db |-> d, w |-> w]

(* raise HTTPException(code, detail) *)
Raised(w, code, detail) ==
    [w EXCEPT !.pc = "done",
              !.resp = [NoResp EXCEPT !.code = code, !.detail = detail]]

(* return {...} *)
Returned(w, resp) == [w EXCEPT !.pc = "done", !.resp = resp]

---------------------------------------------------------------------------
(* POST /api/courses: create_course *)

CreateCourseReq(price, supply) ==
    [NoReq EXCEPT !.op = "create_course", !.price_usd = price,
                  !.token_supply = supply]

(* course_id = create_document("course", course) *)
CreateCourseInsert(d, w) ==
    St([d EXCEPT !.course = Append(@, [price_usd |-> w.req.price_usd,
                                       token_supply |-> w.req.token_supply])],
       [w EXCEPT !.pc = "cc_token", !.loc.id = Len(d.course) + 1])

(* create_document("coursetoken", token_record); return {"id": course_id} *)
CreateCourseToken(d, w) ==
    St([d EXCEPT !.coursetoken = Append(@,
            [course_id |-> w.loc.id,
             total_supply |-> w.req.token_supply,
             circulating_supply |-> 0,
             treasury_token_balance |-> w.req.token_supply,
             treasury_revenue_usd |-> 0])],
       Returned(w, [NoResp EXCEPT !.code = 200, !.id = w.loc.id]))

---------------------------------------------------------------------------
(* POST /api/courses/{course_id}/purchase: purchase_course *)

PurchaseReq(user_id, course_id) ==
    [NoReq EXCEPT !.op = "purchase_course", !.user_id = user_id,
                  !.course_id = course_id]

(* Allocate without the check against the treasury balance. *)
AllocateUnclamped(token) == Max(1, token.total_supply \div RewardDivisor)

(* Allocate that never awards less than one token. *)
AllocateAtLeastOne(token) ==
    Max(1, IF token.treasury_token_balance
                < Max(1, token.total_supply \div RewardDivisor)
           THEN token.treasury_token_balance
           ELSE Max(1, token.total_supply \div RewardDivisor))

(* allocate = max(1, int(total_supply * 0.01)), cut to the treasury balance *)
(* the handler read.                                                        *)
Allocate(token) ==
    LET allocate == Max(1, token.total_supply \div RewardDivisor)
    IN IF token.treasury_token_balance < allocate
       THEN token.treasury_token_balance
       ELSE allocate

(* course = db.course.find_one({"_id": ObjectIdStr.to_obj(course_id)}) *)
PurchaseFindCourse(d, w) ==
    LET found == FindCourse(d, w.req.course_id)
    IN St(d, IF w.req.course_id = InvalidId
             THEN Raised(w, 400, "Invalid id")
             ELSE IF found._id = 0
                  THEN Raised(w, 404, "Course not found")
                  ELSE [w EXCEPT !.pc = "pu_token", !.loc.course = found])

(* token = db.coursetoken.find_one({"course_id": course_id});              *)
(* price = float(course.get("price_usd", 0))                               *)
PurchaseFindToken(d, w) ==
    LET found == FindToken(d, w.req.course_id)
    IN St(d, IF found._id = 0
             THEN Raised(w, 500, "Token record missing for course")
             ELSE [w EXCEPT !.pc = "pu_record", !.loc.token = found,
                            !.loc.price = w.loc.course.price_usd])

(* purchase_id = create_document("purchase", purchase); allocate = ... *)
PurchaseRecord(d, w) ==
    St([d EXCEPT !.purchase = Append(@, [user_id |-> w.req.user_id,
                                         course_id |-> w.req.course_id,
                                         price_usd |-> w.loc.price,
                                         status |-> "paid"])],
       [w EXCEPT !.pc = "pu_supply", !.loc.id = Len(d.purchase) + 1,
                 !.loc.allocate = Allocate(w.loc.token)])

(* PurchaseUpdateSupply with the treasury balance left as it was. *)
PurchaseUpdateSupplyKeepsTreasury(d, w) ==
    St([d EXCEPT !.coursetoken =
            IncToken(@, w.req.course_id, w.loc.allocate, 0,
                     w.loc.price * RevenueUnitsPerUsd)],
       [w EXCEPT !.pc = "pu_balance"])

(* db.coursetoken.update_one({"course_id": course_id}, {"$inc": ...}) *)
PurchaseUpdateSupply(d, w) ==
    St([d EXCEPT !.coursetoken =
            IncToken(@, w.req.course_id, w.loc.allocate, -w.loc.allocate,
                     w.loc.price * RevenueUnitsPerUsd)],
       [w EXCEPT !.pc = "pu_balance"])

(* bal = db.balance.find_one({"user_id": ..., "course_id": course_id}) *)
PurchaseFindBalance(d, w) ==
    St(d, [w EXCEPT !.pc = "pu_credit",
                    !.loc.bal = FindBalance(d, w.req.user_id,
                                            w.req.course_id)])

(* if bal: update_one($inc amount) else: create_document("balance", ...);   *)
(* return {"purchase_id", "tokens_awarded", "price_usd"}                    *)
PurchaseCredit(d, w) ==
    St([d EXCEPT !.balance =
            IF w.loc.bal._id # 0
            THEN IncBalance(@, w.loc.bal._id, w.loc.allocate, 0)
            ELSE Append(@, [user_id |-> w.req.user_id,
                            course_id |-> w.req.course_id,
                            amount |-> w.loc.allocate,
                            reserved |-> 0])],
       Returned(w, [NoResp EXCEPT !.code = 200, !.id = w.loc.id,
                                  !.tokens_awarded = w.loc.allocate,
                                  !.price_usd = w.loc.price]))

---------------------------------------------------------------------------
(* POST /api/orders: place_order *)

PlaceOrderReq(o) ==
    [NoReq EXCEPT !.op = "place_order", !.course_id = o.course_id,
                  !.user_id = o.user_id, !.side = o.side,
                  !.price_usd = o.price_usd, !.amount = o.amount,
                  !.status = o.status]

(* Insufficient without the comparison of the amounts. *)
InsufficientOnlyWhenMissing(bal, amount) == bal._id = 0

(* if not bal or int(bal.get("amount", 0)) < order.amount *)
Insufficient(bal, amount) == bal._id = 0 \/ bal.amount < amount

(* course = db.course.find_one({"_id": ObjectIdStr.to_obj(order.course_id)}) *)
PlaceOrderFindCourse(d, w) ==
    LET found == FindCourse(d, w.req.course_id)
    IN St(d, IF w.req.course_id = InvalidId
             THEN Raised(w, 400, "Invalid id")
             ELSE IF found._id = 0
                  THEN Raised(w, 404, "Course not found")
                  ELSE [w EXCEPT !.loc.course = found,
                                 !.pc = IF w.req.side = "sell"
                                        THEN "po_balance"
                                        ELSE "po_insert"])

(* bal = db.balance.find_one(...); the insufficient-balance check *)
PlaceOrderCheckBalance(d, w) ==
    LET found == FindBalance(d, w.req.user_id, w.req.course_id)
    IN St(d, IF Insufficient(found, w.req.amount)
             THEN Raised(w, 400, "Insufficient token balance")
             ELSE [w EXCEPT !.pc = "po_reserve", !.loc.bal = found])

(* PlaceOrderReserve that takes the tokens from amount and adds none to     *)
(* reserved.                                                               *)
PlaceOrderReserveAvailableOnly(d, w) ==
    St([d EXCEPT !.balance = IncBalance(@, w.loc.bal._id, -w.req.amount, 0)],
       [w EXCEPT !.pc = "po_insert"])

(* db.balance.update_one({"_id": bal["_id"]},                              *)
(*     {"$inc": {"amount": -order.amount, "reserved": order.amount}})      *)
PlaceOrderReserve(d, w) ==
    St([d EXCEPT !.balance = IncBalance(@, w.loc.bal._id,
                                        -w.req.amount, w.req.amount)],
       [w EXCEPT !.pc = "po_insert"])

(* order_id = create_document("order", order); return {"id": order_id} *)
PlaceOrderInsert(d, w) ==
    St([d EXCEPT !.order = Append(@, [course_id |-> w.req.course_id,
                                      user_id |-> w.req.user_id,
                                      side |-> w.req.side,
                                      price_usd |-> w.req.price_usd,
                                      amount |-> w.req.amount,
                                      status |-> w.req.status])],
       Returned(w, [NoResp EXCEPT !.code = 200, !.id = Len(d.order) + 1]))

---------------------------------------------------------------------------
(* POST /api/trades: match_trade *)

MatchTradeReq(buy_id, sell_id, amount) ==
    [NoReq EXCEPT !.op = "match_trade", !.buy_order_id = buy_id,
                  !.sell_order_id = sell_id, !.amount = amount]

(* FillAmount without the buy order's open amount. *)
FillAmountIgnoringBuy(requested, buy, sell) == Min(requested, sell.amount)

(* amount = min(req.amount, buy["amount"], sell["amount"]) *)
FillAmount(requested, buy, sell) ==
    Min(requested, Min(buy.amount, sell.amount))

(* FillPrice that takes the buy order's price. *)
FillPriceOfBuy(buy, sell) == buy.price_usd

(* price = sell["price_usd"] *)
FillPrice(buy, sell) == sell.price_usd

(* buy = db.order.find_one({"_id": ObjectIdStr.to_obj(req.buy_order_id)}) *)
MatchFindBuy(d, w) ==
    St(d, IF w.req.buy_order_id = InvalidId
          THEN Raised(w, 400, "Invalid id")
          ELSE [w EXCEPT !.pc = "mt_sell",
                         !.loc.buy = FindOrder(d, w.req.buy_order_id)])

(* MatchFindSell without the comparison of the two orders' courses. *)
MatchFindSellWithoutCourseCheck(d, w) ==
    LET buy == w.loc.buy
        sell == FindOrder(d, w.req.sell_order_id)
    IN St(d, IF w.req.sell_order_id = InvalidId
             THEN Raised(w, 400, "Invalid id")
             ELSE IF buy._id = 0 \/ sell._id = 0
             THEN Raised(w, 404, "Order not found")
             ELSE IF buy.side # "buy" \/ sell.side # "sell"
             THEN Raised(w, 400, "Invalid order sides")
             ELSE [w EXCEPT !.pc = "mt_dec_sell",
                            !.loc.sell = sell,
                            !.loc.amount = FillAmount(w.req.amount, buy, sell),
                            !.loc.price = FillPrice(buy, sell)])

(* sell = db.order.find_one(...); the three validations; amount and price *)
MatchFindSell(d, w) ==
    LET buy == w.loc.buy
        sell == FindOrder(d, w.req.sell_order_id)
    IN St(d, IF w.req.sell_order_id = InvalidId
             THEN Raised(w, 400, "Invalid id")
             ELSE IF buy._id = 0 \/ sell._id = 0
             THEN Raised(w, 404, "Order not found")
             ELSE IF buy.side # "buy" \/ sell.side # "sell"
             THEN Raised(w, 400, "Invalid order sides")
             ELSE IF buy.course_id # sell.course_id
             THEN Raised(w, 400, "Course mismatch")
             ELSE [w EXCEPT !.pc = "mt_dec_sell",
                            !.loc.sell = sell,
                            !.loc.amount = FillAmount(w.req.amount, buy, sell),
                            !.loc.price = FillPrice(buy, sell)])

(* db.order.update_one({"_id": sell["_id"]}, {"$inc": {"amount": -amount}}) *)
MatchDecSell(d, w) ==
    St([d EXCEPT !.order = DecOrder(@, w.loc.sell._id, w.loc.amount)],
       [w EXCEPT !.pc = "mt_dec_buy"])

(* db.order.update_one({"_id": buy["_id"]}, {"$inc": {"amount": -amount}}) *)
MatchDecBuy(d, w) ==
    St([d EXCEPT !.order = DecOrder(@, w.loc.buy._id, w.loc.amount)],
       [w EXCEPT !.pc = "mt_seller"])

(* bal_seller = db.balance.find_one(...); if there is none, a zero record  *)
(* is inserted and read back.                                              *)
MatchFindSeller(d, w) ==
    LET sell == w.loc.sell
        found == FindBalance(d, sell.user_id, sell.course_id)
        fresh == [user_id |-> sell.user_id, course_id |-> sell.course_id,
                  amount |-> 0, reserved |-> 0]
    IN IF found._id # 0
       THEN St(d, [w EXCEPT !.pc = "mt_release", !.loc.bal_seller = found])
       ELSE St([d EXCEPT !.balance = Append(@, fresh)],
               [w EXCEPT !.pc = "mt_release",
                         !.loc.bal_seller = WithId(fresh, Len(d.balance) + 1)])

(* MatchRelease with the seller's reserved amount left as it was. *)
MatchReleaseSkipped(d, w) == St(d, [w EXCEPT !.pc = "mt_buyer"])

(* db.balance.update_one({"_id": bal_seller["_id"]},                       *)
(*     {"$inc": {"reserved": -amount}})                                    *)
MatchRelease(d, w) ==
    St([d EXCEPT !.balance = IncBalance(@, w.loc.bal_seller._id,
                                        0, -w.loc.amount)],
       [w EXCEPT !.pc = "mt_buyer"])

(* bal_buyer = db.balance.find_one(...) *)
MatchFindBuyer(d, w) ==
    St(d, [w EXCEPT !.pc = "mt_credit",
                    !.loc.bal_buyer = FindBalance(d, w.loc.buy.user_id,
                                                  w.loc.buy.course_id)])

(* if bal_buyer: update_one($inc amount) else: insert_one({..., amount}) *)
MatchCredit(d, w) ==
    St([d EXCEPT !.balance =
            IF w.loc.bal_buyer._id # 0
            THEN IncBalance(@, w.loc.bal_buyer._id, w.loc.amount, 0)
            ELSE Append(@, [user_id |-> w.loc.buy.user_id,
                            course_id |-> w.loc.buy.course_id,
                            amount |-> w.loc.amount,
                            reserved |-> 0])],
       [w EXCEPT !.pc = "mt_fee"])

(* db.coursetoken.update_one({"course_id": buy["course_id"]},              *)
(*     {"$inc": {"treasury_revenue_usd": amount * price * 0.005}});        *)
(* return {"filled_amount": amount, "price_usd": price}                    *)
MatchFee(d, w) ==
    St([d EXCEPT !.coursetoken = IncToken(@, w.loc.buy.course_id, 0, 0,
                                          w.loc.amount * w.loc.price)],
       Returned(w, [NoResp EXCEPT !.code = 200,
                                  !.filled_amount = w.loc.amount,
                                  !.price_usd = w.loc.price]))

---------------------------------------------------------------------------
(* The handlers, step by step *)

(* Where the handler of a request starts. *)
FirstPc(op) ==
    CASE op = "create_course" -> "cc_course"
      [] op = "purchase_course" -> "pu_course"
      [] op = "place_order" -> "po_course"
      [] op = "match_trade" -> "mt_buy"

(* The next database call of worker w on database d. *)
Step(d, w) ==
    CASE w.pc = "cc_course" -> CreateCourseInsert(d, w)
      [] w.pc = "cc_token" -> CreateCourseToken(d, w)
      [] w.pc = "pu_course" -> PurchaseFindCourse(d, w)
      [] w.pc = "pu_token" -> PurchaseFindToken(d, w)
      [] w.pc = "pu_record" -> PurchaseRecord(d, w)
      [] w.pc = "pu_supply" -> PurchaseUpdateSupply(d, w)
      [] w.pc = "pu_balance" -> PurchaseFindBalance(d, w)
      [] w.pc = "pu_credit" -> PurchaseCredit(d, w)
      [] w.pc = "po_course" -> PlaceOrderFindCourse(d, w)
      [] w.pc = "po_balance" -> PlaceOrderCheckBalance(d, w)
      [] w.pc = "po_reserve" -> PlaceOrderReserve(d, w)
      [] w.pc = "po_insert" -> PlaceOrderInsert(d, w)
      [] w.pc = "mt_buy" -> MatchFindBuy(d, w)
      [] w.pc = "mt_sell" -> MatchFindSell(d, w)
      [] w.pc = "mt_dec_sell" -> MatchDecSell(d, w)
      [] w.pc = "mt_dec_buy" -> MatchDecBuy(d, w)
      [] w.pc = "mt_seller" -> MatchFindSeller(d, w)
      [] w.pc = "mt_release" -> MatchRelease(d, w)
      [] w.pc = "mt_buyer" -> MatchFindBuyer(d, w)
      [] w.pc = "mt_credit" -> MatchCredit(d, w)
      [] w.pc = "mt_fee" -> MatchFee(d, w)

(* The handler run from worker state w to its response. *)
RECURSIVE Run(_, _)
Run(d, w) ==
    IF w.pc = "done" THEN St(d, w)
    ELSE LET s == Step(d, w) IN Run(s.db, s.w)

---------------------------------------------------------------------------
(* Requests served one at a time *)

(* Orders the Order schema accepts: side buy or sell, price_usd > 0,       *)
(* amount > 0, any status.                                                 *)
OrderInputs ==
    {[course_id |-> c, user_id |-> u, side |-> sd, price_usd |-> v.price_usd,
      amount |-> v.amount, status |-> v.status] :
        c \in CourseIdInputs, u \in Users, sd \in Sides, v \in OrderVariants}

CourseRequests ==
    {CreateCourseReq(price, supply) :
        price \in CoursePrices, supply \in TokenSupplies}
PurchaseRequests ==
    {PurchaseReq(u, c) : u \in Users, c \in CourseIdInputs}
OrderRequests == {PlaceOrderReq(o) : o \in OrderInputs}
TradeRequests ==
    {MatchTradeReq(b, s, a) :
        b \in OrderIdInputs, s \in OrderIdInputs, a \in TradeAmounts}

(* A worker that has accepted request req on database d. *)
Accepted(d, req) ==
    [IdleProc EXCEPT !.pc = FirstPc(req.op), !.req = req, !.pre = d]

(* The database after the requests of a script, served one at a time from  *)
(* database d.                                                             *)
RECURSIVE After(_, _)
After(d, script) ==
    IF script = <<>> THEN d
    ELSE After(Run(d, Accepted(d, Head(script))).db, Tail(script))

SellOrder(user_id, course_id, price, amount) ==
    PlaceOrderReq([course_id |-> course_id, user_id |-> user_id,
                   side |-> "sell", price_usd |-> price, amount |-> amount,
                   status |-> "open"])
BuyOrder(user_id, course_id, price, amount) ==
    PlaceOrderReq([course_id |-> course_id, user_id |-> user_id,
                   side |-> "buy", price_usd |-> price, amount |-> amount,
                   status |-> "open"])

(* Two courses; u1 has bought course 1 twice and holds its whole supply.   *)
FundedScript ==
    <<CreateCourseReq(3, 2), CreateCourseReq(3, 1),
      PurchaseReq("u1", 1), PurchaseReq("u1", 1)>>

(* ... and u1 offers its two tokens, which u2 bids for below the ask.      *)
MarketScript ==
    FundedScript \o <<SellOrder("u1", 1, 2, 2), BuyOrder("u2", 1, 1, 2)>>

(* The database after request req served n times in a row from d. *)
RECURSIVE Repeated(_, _, _)
Repeated(d, req, n) ==
    IF n = 0 THEN d
    ELSE IF n = 1 THEN Run(d, Accepted(d, req)).db
    ELSE LET half == Repeated(d, req, n \div 2)
         IN IF half = d THEN d  \* a request that changes nothing never will
            ELSE Repeated(half, req, n - n \div 2)

(* A course of 201 tokens (2 per purchase) that u1 bought 100 times: one   *)
(* token is left in the treasury.                                          *)
NearlySoldDb ==
    Repeated(After(EmptyDb, <<CreateCourseReq(3, 201)>>),
             PurchaseReq("u1", 1), 100)

InitialDbs ==
    {EmptyDb, After(EmptyDb, FundedScript), After(EmptyDb, MarketScript),
     NearlySoldDb}

(* The model follows a request only while served is below MaxRequests, and *)
(* creates only the courses and orders whose ids a request can name.       *)
Admitted(d, req) ==
    /\ served < MaxRequests
    /\ req.op = "create_course" => Len(d.course) + 1 \in CourseIdInputs
    /\ req.op = "place_order" => Len(d.order) + 1 \in OrderIdInputs

(* Worker p serves request req from its first database call to its         *)
(* response; served counts the requests that changed the database.         *)
Serve(p, req) ==
    /\ proc[p].pc = "idle"
    /\ LET s == Run(db, Accepted(db, req))
       IN /\ db' = s.db
          /\ proc' = [proc EXCEPT ![p] = s.w]
          /\ served' = IF s.db = db THEN served ELSE served + 1

create_course(p) ==
    \E req \in CourseRequests : Admitted(db, req) /\ Serve(p, req)
purchase_course(p) ==
    \E req \in PurchaseRequests : Admitted(db, req) /\ Serve(p, req)
place_order(p) ==
    \E req \in OrderRequests : Admitted(db, req) /\ Serve(p, req)
match_trade(p) ==
    \E req \in TradeRequests : Admitted(db, req) /\ Serve(p, req)

(* The response leaves the server; the worker is free again. *)
Respond(p) ==
    /\ proc[p].pc = "done"
    /\ proc' = [proc EXCEPT ![p] = IdleProc]
    /\ UNCHANGED <<db, served>>

Init ==
    /\ db \in InitialDbs
    /\ proc = [p \in Workers |-> IdleProc]
    /\ served = 0

Next ==
    \E p \in SerialWorkers :
        \/ create_course(p)
        \/ purchase_course(p)
        \/ place_order(p)
        \/ match_trade(p)
        \/ Respond(p)

Spec == Init /\ [][Next]_vars

---------------------------------------------------------------------------
(* Two requests served concurrently *)

(* The requests the two worker threads receive, one each: they contend for *)
(* the treasury of a course, for a balance record and for an order.        *)
ConcRequests ==
    {CreateCourseReq(3, 1)}
    \cup {PurchaseReq(u, c) : u \in Users, c \in {1, 2}}
    \cup {SellOrder("u1", 1, 2, 2), BuyOrder("u2", 1, 1, 2)}
    \cup {MatchTradeReq(2, 1, a) : a \in {1, 2}}

(* Worker thread p receives a request. *)
Accept(p) ==
    /\ proc[p].pc = "idle"
    /\ \E req \in ConcRequests :
          proc' = [proc EXCEPT ![p] = [Accepted(db, req) EXCEPT !.pre = EmptyDb]]
    /\ UNCHANGED <<db, served>>

(* Worker thread p makes the next database call of its handler. *)
Call(p) ==
    /\ proc[p].pc \notin {"idle", "done"}
    /\ LET s == Step(db, proc[p])
       IN /\ db' = s.db
          /\ proc' = [proc EXCEPT ![p] = s.w]
    /\ UNCHANGED served

ConcNext ==
    \E p \in Workers :
        \/ Accept(p)
        \/ proc[p].pc = "cc_course" /\ Call(p)
        \/ proc[p].pc = "cc_token" /\ Call(p)
        \/ proc[p].pc = "pu_course" /\ Call(p)
        \/ proc[p].pc = "pu_token" /\ Call(p)
        \/ proc[p].pc = "pu_record" /\ Call(p)
        \/ proc[p].pc = "pu_supply" /\ Call(p)
        \/ proc[p].pc = "pu_balance" /\ Call(p)
        \/ proc[p].pc = "pu_credit" /\ Call(p)
        \/ proc[p].pc = "po_course" /\ Call(p)
        \/ proc[p].pc = "po_balance" /\ Call(p)
        \/ proc[p].pc = "po_reserve" /\ Call(p)
        \/ proc[p].pc = "po_insert" /\ Call(p)
        \/ proc[p].pc = "mt_buy" /\ Call(p)
        \/ proc[p].pc = "mt_sell" /\ Call(p)
        \/ proc[p].pc = "mt_dec_sell" /\ Call(p)
        \/ proc[p].pc = "mt_dec_buy" /\ Call(p)
        \/ proc[p].pc = "mt_seller" /\ Call(p)
        \/ proc[p].pc = "mt_release" /\ Call(p)
        \/ proc[p].pc = "mt_buyer" /\ Call(p)
        \/ proc[p].pc = "mt_credit" /\ Call(p)
        \/ proc[p].pc = "mt_fee" /\ Call(p)

ConcInit ==
    /\ db \in {EmptyDb, After(EmptyDb, FundedScript),
               After(EmptyDb, MarketScript)}
    /\ proc = [p \in Workers |-> IdleProc]
    /\ served = 0

ConcSpec == ConcInit /\ [][ConcNext]_vars

---------------------------------------------------------------------------
(* Properties *)

(* Worker p holds the response of a request op. *)
Done(p, op) == proc[p].pc = "done" /\ proc[p].req.op = op

(* The tokens of course_id that the balance records hold. *)
RECURSIVE Held(_, _)
Held(balances, course_id) ==
    IF balances = <<>> THEN 0
    ELSE (IF Head(balances).course_id = course_id
          THEN Head(balances).amount + Head(balances).reserved
          ELSE 0) + Held(Tail(balances), course_id)

(* C1: for every course token record, circulating_supply +                 *)
(* treasury_token_balance = total_supply, in every state between requests: *)
(* from the creation of the record on, before and after every purchase and *)
(* every trade.                                                            *)
SupplyIdentity ==
    \A i \in Indices(db.coursetoken) :
        LET t == db.coursetoken[i]
        IN t.circulating_supply + t.treasury_token_balance = t.total_supply

(* A purchase that awarded tokens, after a trade that filled an order. *)
SupplyIdentityWitness ==
    \E p \in Workers :
        /\ Done(p, "purchase_course")
        /\ proc[p].resp.tokens_awarded > 0
        /\ \E i \in Indices(db.order) : db.order[i].amount = 0

(* C2: whenever no request is mid-execution, for every course the balance  *)
(* records' amount + reserved, summed, plus the treasury_token_balance of  *)
(* the course equal its total_supply.                                      *)
TokenConservation ==
    (\A p \in Workers : proc[p].pc \in {"idle", "done"}) =>
        \A i \in Indices(db.coursetoken) :
            LET t == db.coursetoken[i]
            IN Held(db.balance, t.course_id) + t.treasury_token_balance
                  = t.total_supply

(* A trade moved tokens from a seller, who keeps some reserved, to a buyer. *)
TokenConservationWitness ==
    \E p \in Workers :
        /\ Done(p, "match_trade")
        /\ proc[p].resp.filled_amount > 0
        /\ \E i, j \in Indices(db.balance) :
              /\ db.balance[i].user_id # db.balance[j].user_id
              /\ db.balance[i].course_id = db.balance[j].course_id
              /\ db.balance[i].reserved > 0
              /\ db.balance[j].amount > 0

(* C3: every balance record has amount >= 0 and reserved >= 0, whatever    *)
(* requests were served one at a time, for every accepted order and every  *)
(* integer trade amount.                                                   *)
BalancesNonNegative ==
    \A i \in Indices(db.balance) :
        db.balance[i].amount >= 0 /\ db.balance[i].reserved >= 0

(* C4: a purchase of an existing course awards                             *)
(* min(max(1, floor(total_supply * 0.01)), treasury balance before): the    *)
(* response carries it, the treasury balance loses it, the circulating     *)
(* supply and the buyer's amount gain it (the buyer's record is created if *)
(* absent), and it never exceeds the treasury balance before the call.     *)
PurchaseAward ==
    \A p \in Workers :
        LET pre == proc[p].pre
            c == proc[p].req.course_id
            u == proc[p].req.user_id
            t0 == FindToken(pre, c)
            t1 == FindToken(db, c)
            b0 == FindBalance(pre, u, c)
            b1 == FindBalance(db, u, c)
            award == Min(Max(1, t0.total_supply \div RewardDivisor),
                         t0.treasury_token_balance)
        IN (Done(p, "purchase_course") /\ FindCourse(pre, c)._id # 0) =>
              /\ proc[p].resp.code = 200
              /\ proc[p].resp.tokens_awarded = award
              /\ proc[p].resp.tokens_awarded <= t0.treasury_token_balance
              /\ t1.treasury_token_balance
                    = t0.treasury_token_balance - award
              /\ t1.circulating_supply = t0.circulating_supply + award
              /\ b1._id # 0
              /\ b1.amount = b0.amount + award

(* A purchase that the treasury could only partly reward. *)
PurchaseAwardWitness ==
    \E p \in Workers :
        LET t0 == FindToken(proc[p].pre, proc[p].req.course_id)
        IN /\ Done(p, "purchase_course")
           /\ proc[p].resp.code = 200
           /\ proc[p].resp.tokens_awarded > 0
           /\ proc[p].resp.tokens_awarded
                 < Max(1, t0.total_supply \div RewardDivisor)

(* Workers p and q serve sell orders of one user for one course. *)
SellingTogether(p, q) ==
    /\ p # q
    /\ proc[p].req.op = "place_order" /\ proc[q].req.op = "place_order"
    /\ proc[p].req.side = "sell" /\ proc[q].req.side = "sell"
    /\ proc[p].req.user_id = proc[q].req.user_id
    /\ proc[p].req.course_id = proc[q].req.course_id

(* C5: when two sell orders of one user for one course are placed          *)
(* concurrently, no more than the user's available amount moves to         *)
(* reserved: the amount of the user's balance record never becomes         *)
(* negative.                                                               *)
ConcurrentSellsWithinAvailable ==
    \A p, q \in Workers :
        SellingTogether(p, q) =>
            \A i \in Indices(db.balance) :
                (/\ db.balance[i].user_id = proc[p].req.user_id
                 /\ db.balance[i].course_id = proc[p].req.course_id)
                => db.balance[i].amount >= 0

(* C6: under concurrent purchases of one course the treasury balance never *)
(* becomes negative and the circulating supply never exceeds the total     *)
(* supply.                                                                 *)
ConcurrentPurchasesWithinTreasury ==
    \A i \in Indices(db.coursetoken) :
        /\ db.coursetoken[i].treasury_token_balance >= 0
        /\ db.coursetoken[i].circulating_supply
              <= db.coursetoken[i].total_supply

(* Workers p and q serve trades that name one sell order or one buy order. *)
TradingTogether(p, q) ==
    /\ p # q
    /\ proc[p].req.op = "match_trade" /\ proc[q].req.op = "match_trade"
    /\ \/ proc[p].req.sell_order_id = proc[q].req.sell_order_id
       \/ proc[p].req.buy_order_id = proc[q].req.buy_order_id

(* C7: under concurrent trades on one order, the fills never exceed the     *)
(* order's open amount: no order's amount and no seller's reserved balance *)
(* becomes negative.                                                       *)
ConcurrentTradesWithinOpenAmount ==
    \A p, q \in Workers :
        TradingTogether(p, q) =>
            /\ \A i \in Indices(db.order) : db.order[i].amount >= 0
            /\ \A i \in Indices(db.balance) : db.balance[i].reserved >= 0

(* C8: a sell order of an existing course for more than the user's         *)
(* available amount (or of a user without a balance record) fails with the *)
(* insufficient-balance error, changes no balance record and records no    *)
(* order.                                                                  *)
SellWithoutBalanceFails ==
    \A p \in Workers :
        LET pre == proc[p].pre
            req == proc[p].req
            b0 == FindBalance(pre, req.user_id, req.course_id)
        IN (/\ Done(p, "place_order")
            /\ req.side = "sell"
            /\ FindCourse(pre, req.course_id)._id # 0
            /\ (b0._id = 0 \/ b0.amount < req.amount)) =>
              /\ proc[p].resp.code = 400
              /\ proc[p].resp.detail = "Insufficient token balance"
              /\ db.balance = pre.balance
              /\ db.order = pre.order

(* A sell order for more than the tokens the user has left. *)
SellWithoutBalanceFailsWitness ==
    \E p \in Workers :
        LET req == proc[p].req
            b0 == FindBalance(proc[p].pre, req.user_id, req.course_id)
        IN /\ Done(p, "place_order")
           /\ req.side = "sell"
           /\ b0._id # 0
           /\ 0 < b0.amount /\ b0.amount < req.amount
           /\ proc[p].resp.code = 400

(* C9: a trade that passes validation returns                              *)
(* min(requested, buy.amount, sell.amount) as filled_amount, lowers the    *)
(* open amount of both orders by it, lowers the seller's reserved by it    *)
(* and raises the buyer's amount by it; the orders stay recorded, changed  *)
(* in nothing but the amount.                                              *)
TradeFill ==
    \A p \in Workers :
        LET pre == proc[p].pre
            req == proc[p].req
            b0 == FindOrder(pre, req.buy_order_id)
            s0 == FindOrder(pre, req.sell_order_id)
            filled == Min(Min(req.amount, b0.amount), s0.amount)
            seller0 == FindBalance(pre, s0.user_id, s0.course_id)
            seller1 == FindBalance(db, s0.user_id, s0.course_id)
            buyer0 == FindBalance(pre, b0.user_id, b0.course_id)
            buyer1 == FindBalance(db, b0.user_id, b0.course_id)
        IN (/\ Done(p, "match_trade")
            /\ b0._id # 0 /\ s0._id # 0
            /\ b0.side = "buy" /\ s0.side = "sell"
            /\ b0.course_id = s0.course_id) =>
              /\ proc[p].resp.code = 200
              /\ proc[p].resp.filled_amount = filled
              /\ Len(db.order) = Len(pre.order)
              /\ \A i \in Indices(db.order) :
                    db.order[i] =
                       [pre.order[i] EXCEPT !.amount =
                           IF i \in {b0._id, s0._id} THEN @ - filled ELSE @]
              /\ seller1.reserved = seller0.reserved - filled
              /\ buyer1._id # 0
              /\ buyer1.amount = buyer0.amount + filled

(* A trade asked for more than either order offered; the buy order limits  *)
(* it and the sell order stays open with the rest.                         *)
TradeFillWitness ==
    \E p \in Workers :
        LET req == proc[p].req
            b0 == FindOrder(proc[p].pre, req.buy_order_id)
            s0 == FindOrder(proc[p].pre, req.sell_order_id)
        IN /\ Done(p, "match_trade")
           /\ proc[p].resp.code = 200
           /\ req.amount > s0.amount
           /\ s0.amount > b0.amount
           /\ proc[p].resp.filled_amount = b0.amount
           /\ b0.amount > 0
           /\ FindOrder(db, s0._id).amount = s0.amount - b0.amount

(* C10: there is at most one balance record for each (user, course) pair,  *)
(* also after concurrent purchases and trades that credit a user without a *)
(* record.                                                                 *)
OneBalancePerUserCourse ==
    \A i, j \in Indices(db.balance) :
        (/\ db.balance[i].user_id = db.balance[j].user_id
         /\ db.balance[i].course_id = db.balance[j].course_id) => i = j

(* C11: the open amount of an order never rises and never drops below 0:  *)
(* after every trade, whatever integer amount it asked for, every order's  *)
(* amount is at least 0 and at most what it was before the trade.          *)
OrderAmountNeverRises ==
    \A p \in Workers :
        Done(p, "match_trade") =>
            \A i \in Indices(proc[p].pre.order) :
                /\ 0 <= db.order[i].amount
                /\ db.order[i].amount <= proc[p].pre.order[i].amount

(* C12: a trade on a pair of valid orders of which one has amount 0        *)
(* returns filled_amount = 0 without an error and leaves every balance     *)
(* record's amount and reserved and both orders' amounts as they were.     *)
FilledOrderTradesNothing ==
    \A p \in Workers :
        LET pre == proc[p].pre
            req == proc[p].req
            b0 == FindOrder(pre, req.buy_order_id)
            s0 == FindOrder(pre, req.sell_order_id)
        IN (/\ Done(p, "match_trade")
            /\ b0._id # 0 /\ s0._id # 0
            /\ b0.side = "buy" /\ s0.side = "sell"
            /\ b0.course_id = s0.course_id
            /\ (b0.amount = 0 \/ s0.amount = 0)) =>
              /\ proc[p].resp.code = 200
              /\ proc[p].resp.filled_amount = 0
              /\ db.order = pre.order
              /\ \A u \in Users, c \in CourseIdInputs :
                    /\ FindBalance(db, u, c).amount
                          = FindBalance(pre, u, c).amount
                    /\ FindBalance(db, u, c).reserved
                          = FindBalance(pre, u, c).reserved

(* C13: every order that place_order records has status "open", whatever   *)
(* status the request carries.                                             *)
RecordedOrderStartsOpen ==
    \A p \in Workers :
        (Done(p, "place_order") /\ proc[p].resp.code = 200) =>
            db.order[proc[p].resp.id].status = "open"

(* C14: a trade fails and leaves the orders, the balance records and the   *)
(* course token records as they were when one of the two order ids names   *)
(* no order (order not found), when the first order is not a buy or the    *)
(* second not a sell (invalid order sides), and when the two orders are of *)
(* different courses (course mismatch).                                    *)
TradeValidation ==
    \A p \in Workers :
        LET pre == proc[p].pre
            req == proc[p].req
            b0 == FindOrder(pre, req.buy_order_id)
            s0 == FindOrder(pre, req.sell_order_id)
            missing == b0._id = 0 \/ s0._id = 0
            sides == b0.side # "buy" \/ s0.side # "sell"
            courses == b0.course_id # s0.course_id
        IN Done(p, "match_trade") =>
              /\ (missing \/ sides \/ courses) =>
                    /\ proc[p].resp.code \in {400, 404}
                    /\ db = pre
              /\ (missing /\ InvalidId \notin {req.buy_order_id,
                                                req.sell_order_id}) =>
                    /\ proc[p].resp.code = 404
                    /\ proc[p].resp.detail = "Order not found"
              /\ (~missing /\ sides) =>
                    /\ proc[p].resp.code = 400
                    /\ proc[p].resp.detail = "Invalid order sides"
              /\ (~missing /\ ~sides /\ courses) =>
                    /\ proc[p].resp.code = 400
                    /\ proc[p].resp.detail = "Course mismatch"

(* A trade asked to fill a buy order of one course from a sell order of    *)
(* another was refused.                                                    *)
TradeValidationWitness ==
    \E p \in Workers :
        LET b0 == FindOrder(proc[p].pre, proc[p].req.buy_order_id)
            s0 == FindOrder(proc[p].pre, proc[p].req.sell_order_id)
        IN /\ Done(p, "match_trade")
           /\ b0.side = "buy" /\ s0.side = "sell"
           /\ b0.course_id # s0.course_id
           /\ b0.amount > 0 /\ s0.amount > 0
           /\ proc[p].req.amount > 0
           /\ proc[p].resp.detail = "Course mismatch"

(* C15: the release of a seller's reserved tokens in a trade never leaves  *)
(* the reserved amount below zero: a trade whose release would do so fails *)
(* instead of applying it, so right after the release step of a trade the  *)
(* seller's reserved amount is at least 0.                                 *)
ReleaseKeepsReservedNonNegative ==
    \A p \in Workers :
        proc[p].pc = "mt_buyer" =>
            db.balance[proc[p].loc.bal_seller._id].reserved >= 0

(* C16: a course and its token record are created as one: a purchase of a  *)
(* course that exists never reports that the token record is missing, and  *)
(* between requests every course has exactly one token record.             *)
CourseCreatedWithToken ==
    /\ \A p \in Workers :
          Done(p, "purchase_course") =>
              proc[p].resp.detail # "Token record missing for course"
    /\ (\A p \in Workers : proc[p].pc \in {"idle", "done"}) =>
          \A c \in Indices(db.course) :
              Cardinality({i \in Indices(db.coursetoken) :
                              db.coursetoken[i].course_id = c}) = 1

(* C17: a trade that passes validation executes at the sell order's       *)
(* price, also when the buy order's price is lower: the response carries   *)
(* sell.price_usd and the fee added to the course's treasury_revenue_usd   *)
(* is filled_amount * sell.price_usd * 0.005.                              *)
TradeAtSellPrice ==
    \A p \in Workers :
        LET pre == proc[p].pre
            req == proc[p].req
            b0 == FindOrder(pre, req.buy_order_id)
            s0 == FindOrder(pre, req.sell_order_id)
            t0 == FindToken(pre, b0.course_id)
            t1 == FindToken(db, b0.course_id)
        IN (/\ Done(p, "match_trade")
            /\ b0._id # 0 /\ s0._id # 0
            /\ b0.side = "buy" /\ s0.side = "sell"
            /\ b0.course_id = s0.course_id) =>
              /\ proc[p].resp.code = 200
              /\ proc[p].resp.price_usd = s0.price_usd
              /\ t1.treasury_revenue_usd
                    = t0.treasury_revenue_usd
                      + proc[p].resp.filled_amount * s0.price_usd

(* A buy order was filled from a sell order that asks more than it bids. *)
TradeAtSellPriceWitness ==
    \E p \in Workers :
        LET b0 == FindOrder(proc[p].pre, proc[p].req.buy_order_id)
            s0 == FindOrder(proc[p].pre, proc[p].req.sell_order_id)
        IN /\ Done(p, "match_trade")
           /\ proc[p].resp.code = 200
           /\ proc[p].resp.filled_amount > 0
           /\ b0.price_usd < s0.price_usd
           /\ proc[p].resp.price_usd = s0.price_usd

(* The open amounts of the sell orders of user_id for course_id, summed. *)
RECURSIVE OpenSellAmount(_, _, _)
OpenSellAmount(orders, user_id, course_id) ==
    IF orders = <<>> THEN 0
    ELSE (IF /\ Head(orders).side = "sell"
             /\ Head(orders).user_id = user_id
             /\ Head(orders).course_id = course_id
          THEN Head(orders).amount
          ELSE 0) + OpenSellAmount(Tail(orders), user_id, course_id)

(* C18: whenever no request is mid-execution, for every user and course    *)
(* the reserved amount of the balance record equals the sum of the open    *)
(* amounts of the user's sell orders for the course (0 without a record).  *)
ReservedMatchesSellOrders ==
    (\A p \in Workers : proc[p].pc \in {"idle", "done"}) =>
        \A u \in Users, c \in CourseIdInputs :
            FindBalance(db, u, c).reserved = OpenSellAmount(db.order, u, c)

(* A trade filled part of a sell order; the rest is still reserved. *)
ReservedMatchesSellOrdersWitness ==
    \E p \in Workers :
        LET s0 == FindOrder(proc[p].pre, proc[p].req.sell_order_id)
        IN /\ Done(p, "match_trade")
           /\ proc[p].resp.filled_amount > 0
           /\ FindOrder(db, s0._id).amount > 0
           /\ FindBalance(db, s0.user_id, s0.course_id).reserved
                 = FindOrder(db, s0._id).amount

(* C19: a purchase of a course whose treasury_token_balance is 0 succeeds  *)
(* with tokens_awarded = 0, records a purchase with status "paid", adds    *)
(* the course price to treasury_revenue_usd and leaves circulating_supply, *)
(* treasury_token_balance and the buyer's amount + reserved as they were.  *)
PurchaseOfSoldOutCourse ==
    \A p \in Workers :
        LET pre == proc[p].pre
            c == proc[p].req.course_id
            u == proc[p].req.user_id
            t0 == FindToken(pre, c)
            t1 == FindToken(db, c)
            b0 == FindBalance(pre, u, c)
            b1 == FindBalance(db, u, c)
        IN (/\ Done(p, "purchase_course")
            /\ FindCourse(pre, c)._id # 0
            /\ t0._id # 0
            /\ t0.treasury_token_balance = 0) =>
              /\ proc[p].resp.code = 200
              /\ proc[p].resp.tokens_awarded = 0
              /\ Len(db.purchase) = Len(pre.purchase) + 1
              /\ db.purchase[Len(db.purchase)] =
                    [user_id |-> u, course_id |-> c,
                     price_usd |-> FindCourse(pre, c).price_usd,
                     status |-> "paid"]
              /\ t1.treasury_revenue_usd
                    = t0.treasury_revenue_usd
                      + FindCourse(pre, c).price_usd * RevenueUnitsPerUsd
              /\ t1.circulating_supply = t0.circulating_supply
              /\ t1.treasury_token_balance = 0
              /\ b1.amount + b1.reserved = b0.amount + b0.reserved

(* A user without tokens bought a course whose treasury is empty. *)
PurchaseOfSoldOutCourseWitness ==
    \E p \in Workers :
        LET pre == proc[p].pre
            c == proc[p].req.course_id
        IN /\ Done(p, "purchase_course")
           /\ FindCourse(pre, c)._id # 0
           /\ FindToken(pre, c)._id # 0
           /\ FindToken(pre, c).treasury_token_balance = 0
           /\ FindBalance(pre, proc[p].req.user_id, c)._id = 0
           /\ proc[p].resp.tokens_awarded = 0
           /\ Len(db.purchase) = Len(pre.purchase) + 1

(* C20: treasury_revenue_usd of a course is never negative and never       *)
(* decreases: every purchase and every trade, whatever integer amount it   *)
(* asks for, leaves it equal or larger, and a trade changes none of        *)
(* circulating_supply, treasury_token_balance and total_supply.            *)
RevenueNeverDecreases ==
    /\ \A i \in Indices(db.coursetoken) :
          db.coursetoken[i].treasury_revenue_usd >= 0
    /\ \A p \in Workers :
          (Done(p, "purchase_course") \/ Done(p, "match_trade")) =>
              \A i \in Indices(proc[p].pre.coursetoken) :
                  LET t0 == proc[p].pre.coursetoken[i]
                      t1 == db.coursetoken[i]
                  IN /\ t1.treasury_revenue_usd >= t0.treasury_revenue_usd
                     /\ Done(p, "match_trade") =>
                           /\ t1.circulating_supply = t0.circulating_supply
                           /\ t1.treasury_token_balance
                                 = t0.treasury_token_balance
                           /\ t1.total_supply = t0.total_supply

====
